---- MODULE Spec2Model ----
(***************************************************************************)
(* Model of code.py (prox-sensor-encoder-menu): a polling event loop that  *)
(* reads a Seesaw rotary encoder (knob button + rotation delta), redraws a *)
(* one-line menu, dispatches one of three blocking action loops on a       *)
(* click-release edge and drives a NeoPixel from a proximity threshold.    *)
(*                                                                         *)
(* The program is sequential; pc is its position:                          *)
(*   "boot"      before Encoder.__init__ has checked the firmware version  *)
(*   "aborted"   the assertion of Encoder.__init__ failed                  *)
(*   "main"      top of an iteration of the event loop of main()           *)
(*   "mainPoll"  showMenu() has returned, the encoder is read next         *)
(*   "showProx" / "showLux" / "setThresh"                                  *)
(*               top of an iteration of that action's loop, called from    *)
(*               doAction() in the middle of an iteration of main()        *)
(* The hardware (knob button pin, encoder counter, proximity sensor) is    *)
(* the environment: the pin and the counter change by their own actions,   *)
(* a proximity reading is any value of ProxVals.                           *)
(*                                                                         *)
(* Of the console output only the writes of showMenu() are kept            *)
(* (lastRender); the headers and the readings printed by the action loops  *)
(* change no program state and are left out.  rendersSince, tick,        *)
(* ledWrites and discarded are history variables: they record what         *)
(* happened and guide nothing.                                             *)
(***************************************************************************)
EXTENDS Integers, Sequences, FiniteSets, TLC

(* ---------------- bounds of the model ---------------- *)

\* The encoder's pending rotation count is kept in -MaxAccum..MaxAccum.
MaxAccum == 2

\* Proximity readings 0..MaxProx (and HI, see ProxVals).
MaxProx == 4

\* rendersSince counts menu renders up to this cap.
MaxRenders == 2

(* ---------------- program constants ---------------- *)

SEESAW_VERSION == 4991

LO == 2

HI == 60

InitialThreshold == 4

InitialSelection == 0

LED_ON == <<5, 0, 5>>

LED_OFF == <<0, 0, 0>>

\* LED state before the first neopixel_write.
LED_UNSET == <<>>

INVERSE == "ESC[7m"

NORMAL == "ESC[0m"

\* ctx['menu']: (name, action) pairs; Python index i is Menu[i + 1].
Menu == << <<"Show Proxmity", "showProx">>,
           <<"Show Lux", "showLux">>,
           <<"Set Threshold", "setThresh">> >>

\* The callable objects of the program (functions defined in code.py).
Functions == {"showProx", "showLux", "setThresh"}

\* Bug variant: the check is missing, every entry is called.
callableAlways(action) == TRUE

callable(action) == action \in Functions

ActionPCs == {"showProx", "showLux", "setThresh"}

\* A menu action that is not callable (None in place of a function).
NotCallable == "None"

\* Context dictionaries doAction() can be handed: the menu of main() and
\* the same menu with one entry whose action is not callable.
Menus ==
    {Menu} \cup
    { [Menu EXCEPT ![k] = << Menu[k][1], NotCallable >>] :
          k \in 1 .. Len(Menu) }

(* ---------------- inputs ---------------- *)

\* Values of Seesaw.get_version(): product id in the high 16 bits.
Versions == { SEESAW_VERSION * 65536 + 7,
              5880 * 65536 + 7,
              SEESAW_VERSION }

ProxVals == (0 .. MaxProx) \cup {HI}

Turns == {-1, 1}

VARIABLES
    pc,           \* position of the program
    fwVersion,    \* what Seesaw.get_version() returns
    pin24,        \* level of the button pin (pull-up: TRUE = released)
    encAccum,     \* rotation counted by the encoder since the last read
    newline,      \* ctx['newline']
    selection,    \* ctx['selection']
    threshold,    \* ctx['threshold']
    prevClick,    \* main(): prevClick
    click,        \* main(): click
    delta,        \* main(): delta
    aPrevClick,   \* prevClick of the running action loop
    thresh,       \* setThresh(): thresh
    led,          \* last value written by neopixel_write
    proxRead,     \* vcnl.proximity as read by the last updateNeopixel
    lastRender,   \* the writes of the last showMenu call, in order
    rendersSince, \* showMenu calls since startup / the last doAction
    tick,         \* parity of the number of program steps taken
    menu,         \* ctx['menu']
    ledWrites,    \* neopixel_write calls since the last button read
    discarded     \* delta read by the setThresh poll that just returned

vars == << pc, fwVersion, pin24, encAccum, newline, selection, threshold,
           prevClick, click, delta, aPrevClick, thresh, led, proxRead,
           lastRender, rendersSince, tick, menu, ledWrites, discarded >>

(* ---------------- pure functions of the program ---------------- *)

Min(a, b) == IF a < b THEN a ELSE b

Max(a, b) == IF a > b THEN a ELSE b

\* Bug variant: the version field taken without the shift.
EncoderVerNoShift(v) == v % 65536

\* Encoder.__init__: ver = (ssw.get_version() >> 16) & 0xffff
EncoderVer(v) == (v \div 65536) % 65536

\* Encoder.clicked: not digital_read(24)
clicked(pin) == ~pin

\* Bug variant: any change of the button dispatches, press included.
MainClickEdgeAnyChange(c, prev) == c # prev

\* main(): (not click) and (click != prevClick)
MainClickEdge(c, prev) == (~c) /\ (c # prev)

\* Bug variant: level trigger, returns whenever the button is released.
ProxClickEdgeLevel(c, prev) == ~c

\* showProx(): (not click) and (click != prevClick)
ProxClickEdge(c, prev) == (~c) /\ (c # prev)

\* showLux(): (not click) and (click != prevClick)
LuxClickEdge(c, prev) == (~c) /\ (c # prev)

\* Bug variant: inverted pin sense, returns on the press edge.
ThreshClickEdgeOnPress(c, prev) == c /\ (c # prev)

\* setThresh(): (not click) and (click != prevClick)
ThreshClickEdge(c, prev) == (~c) /\ (c # prev)

\* Bug variant: no upper clamp.
ClampThreshNoUpper(t, d) == Max(LO, t + d)

\* setThresh(): max(LO, min(HI, thresh + delta))
ClampThresh(t, d) == Max(LO, Min(HI, t + d))

\* Bug variant: the selection wraps around the menu.
selectWrap(d, sel) == (sel + d) % Len(menu)

\* select(): max(0, min(limit, sel + delta)), limit = len(menu) - 1
select(d, sel) == Max(0, Min(Len(menu) - 1, sel + d))

\* Bug variant: strict comparison.
NeopixelColorStrict(prox, thr) == IF prox > thr THEN LED_ON ELSE LED_OFF

\* updateNeopixel(): the bytes written for a proximity reading
NeopixelColor(prox, thr) == IF prox >= thr THEN LED_ON ELSE LED_OFF

\* Bug variant: items up to the selected one are highlighted.
ItemWritesUpTo(i, sel) ==
    LET name == menu[i + 1][1]
    IN  IF i <= sel
        THEN << INVERSE, " " \o name \o " ", NORMAL >>
        ELSE << " " \o name \o " " >>

\* showMenu(): the writes for menu item i (Python index)
ItemWrites(i, sel) ==
    LET name == menu[i + 1][1]
    IN  IF i = sel
        THEN << INVERSE, " " \o name \o " ", NORMAL >>
        ELSE << " " \o name \o " " >>

RECURSIVE MenuWrites(_, _)
MenuWrites(i, sel) ==
    IF i >= Len(menu) THEN << >>
    ELSE ItemWrites(i, sel) \o MenuWrites(i + 1, sel)

\* Bug variant: a line feed before every redraw.
showMenuAlwaysLF(prefix, nl, sel) ==
    << "\n" >>
    \o << "\r" \o prefix \o ": " >>
    \o MenuWrites(0, sel)

\* showMenu(): everything it writes to stdout, in order
showMenu(prefix, nl, sel) ==
    (IF nl THEN << "\n" >> ELSE << >>)
    \o << "\r" \o prefix \o ": " >>
    \o MenuWrites(0, sel)

\* Bug variant: the first menu entry whatever the selection.
SelectedActionFirst(sel) == menu[1][2]

\* doAction(): the action of the selected menu entry
SelectedAction(sel) == menu[sel + 1][2]

(* ---------------- initial state ---------------- *)

\* Everything but the menu: the hardware at power-up, the literals of
\* the context dictionary, the locals of main().
InitRest ==
    /\ pc = "boot"
    /\ fwVersion \in Versions
    /\ pin24 = TRUE
    /\ encAccum = 0
    /\ newline = TRUE
    /\ selection = InitialSelection
    /\ threshold = InitialThreshold
    /\ prevClick = FALSE
    /\ click = FALSE
    /\ delta = 0
    /\ aPrevClick = FALSE
    /\ thresh = 0
    /\ led = LED_UNSET
    /\ proxRead = 0
    /\ lastRender = << >>
    /\ rendersSince = 0
    /\ tick = FALSE
    /\ ledWrites = 0
    /\ discarded = 0

Init ==
    /\ menu = Menu
    /\ InitRest

\* doAction() and the loop around it started on any context of Menus.
CtxInit ==
    /\ menu \in Menus
    /\ InitRest

(* ---------------- environment ---------------- *)

EnvPress ==
    /\ pin24 = TRUE
    /\ pin24' = FALSE
    /\ UNCHANGED << pc, fwVersion, encAccum, newline, selection, threshold,
                    prevClick, click, delta, aPrevClick, thresh, led,
                    proxRead, lastRender, rendersSince, tick, menu,
                    ledWrites, discarded >>

EnvRelease ==
    /\ pin24 = FALSE
    /\ pin24' = TRUE
    /\ UNCHANGED << pc, fwVersion, encAccum, newline, selection, threshold,
                    prevClick, click, delta, aPrevClick, thresh, led,
                    proxRead, lastRender, rendersSince, tick, menu,
                    ledWrites, discarded >>

EnvTurn ==
    \E d \in Turns :
        /\ encAccum + d \in (-MaxAccum) .. MaxAccum
        /\ encAccum' = encAccum + d
        /\ UNCHANGED << pc, fwVersion, pin24, newline, selection, threshold,
                        prevClick, click, delta, aPrevClick, thresh, led,
                        proxRead, lastRender, rendersSince, tick, menu,
                    ledWrites, discarded >>

(* ---------------- program ---------------- *)

\* main() up to the event loop: Encoder.__init__ asserts the version.
Boot ==
    /\ pc = "boot"
    /\ tick' = ~tick
    /\ pc' = IF EncoderVer(fwVersion) = SEESAW_VERSION
             THEN "main" ELSE "aborted"
    /\ UNCHANGED << fwVersion, pin24, encAccum, newline, selection,
                    threshold, prevClick, click, delta, aPrevClick, thresh,
                    led, proxRead, lastRender, rendersSince, menu,
                    ledWrites, discarded >>

\* updateNeopixel(ctx) with ctx['threshold'] = thr: one sensor read,
\* one neopixel_write.
updateNeopixel(thr) ==
    \E p \in ProxVals :
        /\ proxRead' = p
        /\ led' = NeopixelColor(p, thr)
        /\ ledWrites' = 1

\* Bug variant: the iteration ends without the LED update.
MainRestNoLed(c, d) ==
    /\ prevClick' = c
    /\ selection' = IF d # 0 THEN select(d, selection) ELSE selection
    /\ ledWrites' = 0
    /\ UNCHANGED << led, proxRead >>
    /\ pc' = "main"

\* The rest of an iteration of main() after the click handling:
\* prevClick = click; if delta != 0: select(delta, ctx); updateNeopixel.
MainRest(c, d) ==
    /\ prevClick' = c
    /\ selection' = IF d # 0 THEN select(d, selection) ELSE selection
    /\ updateNeopixel(threshold)
    /\ pc' = "main"

\* Bug variant: the delta read before the action is dropped afterwards.
ReturnToMainDropsDelta(c, d) ==
    /\ newline' = TRUE
    /\ rendersSince' = 0
    /\ aPrevClick' = FALSE
    /\ thresh' = 0
    /\ MainRest(c, 0)

\* doAction() after the action has returned (or was not callable), then
\* the rest of the iteration of main() that called doAction().
ReturnToMain(c, d) ==
    /\ newline' = TRUE
    /\ rendersSince' = 0
    /\ aPrevClick' = FALSE
    /\ thresh' = 0
    /\ MainRest(c, d)

\* main(): sleep; showMenu('Main', ctx)
MainShowMenu ==
    /\ pc = "main"
    /\ tick' = ~tick
    /\ lastRender' = showMenu("Main", newline, selection)
    /\ newline' = FALSE
    /\ rendersSince' = Min(rendersSince + 1, MaxRenders)
    /\ pc' = "mainPoll"
    /\ UNCHANGED << fwVersion, pin24, encAccum, selection, threshold,
                    prevClick, click, delta, aPrevClick, thresh, led,
                    proxRead, menu, ledWrites >>
    /\ discarded' = 0

\* main(): click = enc.clicked(); delta = enc.delta(); then either
\* doAction(ctx) up to the first iteration of the action loop, or the
\* rest of the iteration.
MainPoll ==
    /\ pc = "mainPoll"
    /\ tick' = ~tick
    /\ click' = clicked(pin24)
    /\ delta' = encAccum
    /\ encAccum' = 0
    /\ IF MainClickEdge(click', prevClick)
       THEN LET action == SelectedAction(selection)
            IN  IF callable(action)
                THEN /\ pc' = action
                     /\ aPrevClick' = FALSE
                     /\ thresh' = IF action = "setThresh"
                                  THEN threshold ELSE thresh
                     /\ ledWrites' = 0
                     /\ UNCHANGED << newline, selection, threshold,
                                     prevClick, led, proxRead,
                                     rendersSince >>
                ELSE /\ ReturnToMain(click', delta')
                     /\ UNCHANGED threshold
       ELSE /\ MainRest(click', delta')
            /\ UNCHANGED << newline, threshold, aPrevClick, thresh,
                            rendersSince >>
    /\ UNCHANGED << fwVersion, pin24, lastRender, menu, discarded >>

\* One iteration of the loop of showProx().
ShowProxPoll ==
    /\ pc = "showProx"
    /\ tick' = ~tick
    /\ LET c == clicked(pin24)
       IN  IF ProxClickEdge(c, aPrevClick)
           THEN ReturnToMain(click, delta)
           ELSE /\ aPrevClick' = c
                /\ updateNeopixel(threshold)
                /\ UNCHANGED << pc, newline, selection, prevClick, thresh,
                                rendersSince >>
    /\ UNCHANGED << fwVersion, pin24, encAccum, threshold, click, delta,
                    lastRender, menu, discarded >>

\* Bug variant: the loop reads (and so clears) the encoder delta.
ShowLuxPollReadsDelta ==
    /\ pc = "showLux"
    /\ tick' = ~tick
    /\ encAccum' = 0
    /\ LET c == clicked(pin24)
       IN  IF LuxClickEdge(c, aPrevClick)
           THEN ReturnToMain(click, delta)
           ELSE /\ aPrevClick' = c
                /\ updateNeopixel(threshold)
                /\ UNCHANGED << pc, newline, selection, prevClick, thresh,
                                rendersSince >>
    /\ UNCHANGED << fwVersion, pin24, threshold, click, delta,
                    lastRender, menu, discarded >>

\* One iteration of the loop of showLux().
ShowLuxPoll ==
    /\ pc = "showLux"
    /\ tick' = ~tick
    /\ LET c == clicked(pin24)
       IN  IF LuxClickEdge(c, aPrevClick)
           THEN ReturnToMain(click, delta)
           ELSE /\ aPrevClick' = c
                /\ updateNeopixel(threshold)
                /\ UNCHANGED << pc, newline, selection, prevClick, thresh,
                                rendersSince >>
    /\ UNCHANGED << fwVersion, pin24, encAccum, threshold, click, delta,
                    lastRender, menu, discarded >>

\* Bug variant: the threshold is kept in the local variable while the
\* knob turns and stored in ctx only by the click that ends the loop.
SetThreshPollSaveOnClick ==
    /\ pc = "setThresh"
    /\ tick' = ~tick
    /\ encAccum' = 0
    /\ LET c == clicked(pin24)
           d == encAccum
       IN  IF ThreshClickEdge(c, aPrevClick)
           THEN /\ threshold' = thresh
                /\ discarded' = d
                /\ newline' = TRUE
                /\ rendersSince' = 0
                /\ aPrevClick' = FALSE
                /\ thresh' = 0
                /\ prevClick' = click
                /\ selection' = IF delta # 0 THEN select(delta, selection)
                                ELSE selection
                /\ updateNeopixel(threshold')
                /\ pc' = "main"
           ELSE /\ aPrevClick' = c
                /\ thresh' = IF d # 0 THEN ClampThresh(thresh, d)
                             ELSE thresh
                /\ updateNeopixel(threshold)
                /\ UNCHANGED << pc, newline, selection, prevClick,
                                rendersSince, discarded, threshold >>
    /\ UNCHANGED << fwVersion, pin24, click, delta, lastRender, menu >>

\* Bug variant: the knob handling of main() copied into setThresh, the
\* turn also moves the menu selection.
SetThreshPollSelects ==
    /\ pc = "setThresh"
    /\ tick' = ~tick
    /\ encAccum' = 0
    /\ LET c == clicked(pin24)
           d == encAccum
       IN  IF ThreshClickEdge(c, aPrevClick)
           THEN /\ ReturnToMain(click, delta)
                /\ discarded' = d
                /\ UNCHANGED threshold
           ELSE /\ aPrevClick' = c
                /\ thresh' = IF d # 0 THEN ClampThresh(thresh, d)
                             ELSE thresh
                /\ threshold' = IF d # 0 THEN thresh' ELSE threshold
                /\ selection' = IF d # 0 THEN select(d, selection)
                                ELSE selection
                /\ updateNeopixel(threshold')
                /\ UNCHANGED << pc, newline, prevClick,
                                rendersSince, discarded >>
    /\ UNCHANGED << fwVersion, pin24, click, delta, lastRender, menu >>

\* Bug variant: the knob turn is handled before the click, so the poll
\* that ends the loop still stores its delta.
SetThreshPollTurnFirst ==
    /\ pc = "setThresh"
    /\ tick' = ~tick
    /\ encAccum' = 0
    /\ LET c == clicked(pin24)
           d == encAccum
       IN  /\ threshold' = IF d # 0 THEN ClampThresh(thresh, d)
                           ELSE threshold
           /\ IF ThreshClickEdge(c, aPrevClick)
              THEN /\ newline' = TRUE
                   /\ rendersSince' = 0
                   /\ aPrevClick' = FALSE
                   /\ thresh' = 0
                   /\ discarded' = d
                   /\ prevClick' = click
                   /\ selection' = IF delta # 0
                                   THEN select(delta, selection)
                                   ELSE selection
                   /\ updateNeopixel(threshold')
                   /\ pc' = "main"
              ELSE /\ aPrevClick' = c
                   /\ thresh' = threshold'
                   /\ updateNeopixel(threshold')
                   /\ UNCHANGED << pc, newline, selection, prevClick,
                                   rendersSince, discarded >>
    /\ UNCHANGED << fwVersion, pin24, click, delta, lastRender, menu >>

\* One iteration of the loop of setThresh().
SetThreshPoll ==
    /\ pc = "setThresh"
    /\ tick' = ~tick
    /\ encAccum' = 0
    /\ LET c == clicked(pin24)
           d == encAccum
       IN  IF ThreshClickEdge(c, aPrevClick)
           THEN /\ ReturnToMain(click, delta)
                /\ discarded' = d
                /\ UNCHANGED threshold
           ELSE /\ aPrevClick' = c
                /\ thresh' = IF d # 0 THEN ClampThresh(thresh, d)
                             ELSE thresh
                /\ threshold' = IF d # 0 THEN thresh' ELSE threshold
                /\ updateNeopixel(threshold')
                /\ UNCHANGED << pc, newline, selection, prevClick,
                                rendersSince, discarded >>
    /\ UNCHANGED << fwVersion, pin24, click, delta, lastRender, menu >>

Program ==
    \/ Boot
    \/ MainShowMenu
    \/ MainPoll
    \/ ShowProxPoll
    \/ ShowLuxPoll
    \/ SetThreshPoll

Environment ==
    \/ EnvPress
    \/ EnvRelease
    \/ EnvTurn

Next == Program \/ Environment

Spec == Init /\ [][Next]_vars

\* The same program on every context of Menus.
CtxSpec == CtxInit /\ [][Next]_vars

\* The program never blocks: every loop iteration sleeps a bounded time
\* and polls again.  Nothing is assumed of the environment.
FairSpec == Spec /\ WF_vars(Program)

TypeOK ==
    /\ pc \in {"boot", "aborted", "main", "mainPoll"} \cup ActionPCs
    /\ fwVersion \in Versions
    /\ pin24 \in BOOLEAN
    /\ encAccum \in (-MaxAccum) .. MaxAccum
    /\ newline \in BOOLEAN
    /\ selection \in Int
    /\ threshold \in Int
    /\ prevClick \in BOOLEAN
    /\ click \in BOOLEAN
    /\ delta \in (-MaxAccum) .. MaxAccum
    /\ aPrevClick \in BOOLEAN
    /\ thresh \in Int
    /\ led \in {LED_UNSET, LED_ON, LED_OFF}
    /\ proxRead \in ProxVals
    /\ rendersSince \in 0 .. MaxRenders
    /\ tick \in BOOLEAN
    /\ menu \in Menus
    /\ ledWrites \in {0, 1}
    /\ discarded \in (-MaxAccum) .. MaxAccum

(* ---------------- vocabulary of the properties ---------------- *)

\* A step of the program (not of the hardware).
ProgramStep == tick' # tick

InAction == pc \in ActionPCs

\* A step of main() that reads the encoder (the step leaves "mainPoll").
MainReadStep == pc = "mainPoll" /\ pc' # "mainPoll"

\* A step in which doAction() starts an action loop.
DispatchStep == pc \notin ActionPCs /\ pc' \in ActionPCs

\* A step in which the running action loop returns.
ActionExitStep == pc \in ActionPCs /\ pc' \notin ActionPCs

\* What a render wrote for menu item i (Python index) when highlighted.
ItemText(i) == " " \o menu[i + 1][1] \o " "

\* The items a render shows between the inverse and normal escape codes.
Highlighted(writes) ==
    { i \in 0 .. (Len(menu) - 1) :
        \E k \in 1 .. (Len(writes) - 2) :
            /\ writes[k] = INVERSE
            /\ writes[k + 1] = ItemText(i)
            /\ writes[k + 2] = NORMAL }

InverseCount(writes) ==
    Cardinality({ k \in 1 .. Len(writes) : writes[k] = INVERSE })

HasLF(writes) == \E k \in 1 .. Len(writes) : writes[k] = "\n"

HasCR(writes) == \E k \in 1 .. Len(writes) : writes[k] = "\rMain: "

(* ---------------- C1 ---------------- *)

\* C1: a main-loop poll dispatches an action if and only if it reads the
\* button released while prevClick, the reading of the preceding main-loop
\* iteration (FALSE at start), is pressed; an action is dispatched by no
\* other step; between iterations prevClick equals the last main-loop
\* reading, so a button held or left alone dispatches nothing and one
\* press-release cycle dispatches once.
C1_DispatchOnReleaseEdge ==
    [][ /\ MainReadStep =>
            /\ click' = ~pin24
            /\ (pc' \in ActionPCs) <=> (pin24 /\ prevClick)
        /\ DispatchStep => pc = "mainPoll"
        /\ (pc' \in {"main", "mainPoll"}) => (prevClick' = click')
        /\ (pc = "boot") => (prevClick = FALSE)
        /\ (click' # click) => MainReadStep
      ]_vars

C1_Witness == InAction /\ prevClick /\ ~click

(* ---------------- C2 ---------------- *)

\* C2: the action loop that is running is the one paired with the current
\* selection index (0 showProx, 1 showLux, 2 setThresh), and that index is
\* the single item the preceding showMenu call rendered as highlighted.
C2_ActionMatchesSelection ==
    InAction =>
        /\ selection \in {0, 1, 2}
        /\ (selection = 0) => (pc = "showProx")
        /\ (selection = 1) => (pc = "showLux")
        /\ (selection = 2) => (pc = "setThresh")
        /\ Highlighted(lastRender) = {selection}

C2_Witness == pc = "setThresh" /\ selection = 2 /\ delta # 0

(* ---------------- C3 ---------------- *)

\* C3: an action loop returns only on a poll that reads the button released
\* while the loop's own prevClick is pressed; that prevClick is FALSE on
\* entry and becomes pressed only by a poll inside the loop that reads the
\* button pressed, so the loop returns neither on its first poll nor while
\* it has seen the button only released.
C3_ActionExitOnOwnReleaseEdge ==
    [][ /\ ActionExitStep => (pin24 /\ aPrevClick /\ pc' = "main")
        /\ DispatchStep => (aPrevClick' = FALSE)
        /\ (aPrevClick' /\ ~aPrevClick) =>
               (InAction /\ pc' = pc /\ ~pin24)
      ]_vars

C3_Witness ==
    pc = "main" /\ rendersSince = 0 /\ led # LED_UNSET /\ newline

(* ---------------- C4 ---------------- *)

\* C4: the LED holds (5,0,5) when the proximity read by the last
\* updateNeopixel call was >= ctx['threshold'] and (0,0,0) when it was
\* smaller; no other value is written.
C4_LedIsThresholdComparison ==
    (led # LED_UNSET) =>
        /\ led \in { <<5, 0, 5>>, <<0, 0, 0>> }
        /\ (led = <<5, 0, 5>>) <=> (proxRead >= threshold)
        /\ (led = <<0, 0, 0>>) <=> (proxRead < threshold)

C4_Witness == led = <<5, 0, 5>> /\ proxRead = threshold

(* ---------------- C5 ---------------- *)

\* C5: ctx['threshold'] is always in 2..60, starts at 4, is changed only
\* by a non-exiting setThresh poll that read a nonzero delta, and is then
\* max(2, min(60, threshold + delta)).
C5_ThresholdClamped ==
    /\ [](threshold \in 2 .. 60)
    /\ []((pc = "boot") => (threshold = 4))
    /\ [][ /\ (threshold' # threshold) =>
                  (pc = "setThresh" /\ pc' = "setThresh" /\ encAccum # 0)
           /\ (ProgramStep /\ pc = "setThresh" /\ pc' = "setThresh")
                  => threshold' =
                       IF threshold + encAccum > 60 THEN 60
                       ELSE IF threshold + encAccum < 2 THEN 2
                       ELSE threshold + encAccum
         ]_vars

C5_Witness == pc = "setThresh" /\ threshold = 60 /\ thresh = 60

(* ---------------- C6 ---------------- *)

\* C6: ctx['selection'] is always in 0..2, starts at 0, and the end of
\* every main-loop iteration stores max(0, min(2, selection + delta)) for
\* the delta read in that iteration; nothing else changes it.
C6_SelectionClamped ==
    /\ [](selection \in 0 .. 2)
    /\ []((pc = "boot") => (selection = 0))
    /\ [][ /\ (selection' # selection) => (pc # "main" /\ pc' = "main")
           /\ (pc \notin {"main", "boot"} /\ pc' = "main") =>
                  selection' =
                      IF selection + delta' > 2 THEN 2
                      ELSE IF selection + delta' < 0 THEN 0
                      ELSE selection + delta'
         ]_vars

\* The render of this iteration showed the last item and a turn further
\* right was applied: the selection stayed on the last item.
C6_Witness ==
    /\ pc = "main"
    /\ selection = 2
    /\ delta > 0
    /\ rendersSince >= 1
    /\ Highlighted(lastRender) = {2}

(* ---------------- C7 ---------------- *)

\* C7: every iteration of the main loop leaves the loop top by a showMenu
\* call, the encoder is read in main() only right after one, and every
\* render highlights exactly the item whose index is ctx['selection'].
C7_RenderEveryIteration ==
    [][ /\ (pc = "main" /\ pc' # "main") =>
               /\ pc' = "mainPoll"
               /\ HasCR(lastRender')
               /\ Highlighted(lastRender') = {selection}
               /\ InverseCount(lastRender') = 1
        /\ MainReadStep =>
               /\ Highlighted(lastRender) = {selection}
               /\ InverseCount(lastRender) = 1
        /\ (pc' = "mainPoll" /\ pc # "mainPoll") => (pc = "main")
      ]_vars

\* A render made although the previous iteration read no click and no turn.
C7_Witness ==
    /\ pc = "mainPoll"
    /\ rendersSince >= 2
    /\ ~click /\ ~prevClick /\ delta = 0
    /\ selection = 1

(* ---------------- C8 ---------------- *)

\* C8: when the version field (bits 16..31 of get_version()) is not 4991
\* the program never gets past startup: no menu render, no action, no LED
\* write, in any state of the behaviour.
C8_BadVersionAborts ==
    ((fwVersion \div 65536) % 65536 # 4991) =>
        /\ pc \in {"boot", "aborted"}
        /\ lastRender = << >>
        /\ rendersSince = 0
        /\ led = LED_UNSET
        /\ selection = 0 /\ threshold = 4 /\ newline

C8_Witness == pc = "aborted" /\ fwVersion = 4991

(* ---------------- C9 ---------------- *)

\* C9: an action loop ends only by a poll that reads the button released
\* after a poll of that loop read it pressed, and control is then at the
\* top of the main loop; once a poll of the loop has read the button
\* pressed, either the button is pressed again and again for ever or the
\* loop ends and the main loop renders the menu again.
C9_ActionEndsOnClick ==
    /\ [][ ActionExitStep =>
               (ProgramStep /\ aPrevClick /\ pin24 /\ pc' = "main") ]_vars
    /\ []( (InAction /\ aPrevClick) =>
               ([]<>(~pin24) \/ <>(pc = "mainPoll")) )

C9_Witness ==
    /\ pc = "mainPoll"
    /\ led # LED_UNSET
    /\ rendersSince = 1
    /\ ~prevClick /\ ~click

(* ---------------- C10 ---------------- *)

\* C10: showMenu writes a line feed exactly when ctx['newline'] is TRUE and
\* leaves the flag FALSE; the flag is TRUE at startup and after every
\* doAction; so a render starts with a line feed exactly when it is the
\* first one since startup or since an action, and every render writes
\* the carriage return.
C10_NewlineOnlyAfterAction ==
    /\ []((pc = "boot") => newline)
    /\ []((rendersSince >= 1) =>
              /\ HasCR(lastRender)
              /\ HasLF(lastRender) <=> (rendersSince = 1))
    /\ [][ /\ (pc = "main" /\ pc' = "mainPoll") =>
                  /\ HasLF(lastRender') <=> newline
                  /\ newline' = FALSE
           /\ ActionExitStep => (newline' /\ rendersSince' = 0)
           /\ (newline' /\ ~newline) => ActionExitStep
         ]_vars

C10_Witness ==
    /\ pc = "mainPoll"
    /\ rendersSince = 1
    /\ HasLF(lastRender)
    /\ led # LED_UNSET
    /\ selection = 2

C10_OverwriteWitness ==
    pc = "mainPoll" /\ rendersSince >= 2 /\ ~HasLF(lastRender)

(* ---------------- C11 ---------------- *)

\* C11: a setThresh poll that does not end the loop and reads a nonzero
\* delta stores the clamped sum in ctx['threshold'] in that same step, and
\* the LED written in that step is the comparison against the stored
\* value; the poll that ends the loop leaves ctx['threshold'] as it was.
C11_ThresholdStoredOnTurn ==
    [][ /\ (ProgramStep /\ pc = "setThresh" /\ pc' = "setThresh"
               /\ encAccum # 0) =>
               /\ threshold' = Max(2, Min(60, threshold + encAccum))
               /\ thresh' = threshold'
               /\ ledWrites' = 1
               /\ (led' = <<5, 0, 5>>) <=> (proxRead' >= threshold')
        /\ (pc = "setThresh" /\ pc' # "setThresh") =>
               (threshold' = threshold)
        /\ (pc = "setThresh") => (thresh = threshold)
      ]_vars

\* The knob was turned down to 3 and the LED is on for a reading of 3,
\* which the initial threshold 4 would leave off.
C11_Witness ==
    /\ pc = "setThresh"
    /\ threshold = 3
    /\ proxRead = 3
    /\ led = <<5, 0, 5>>
    /\ ~aPrevClick

(* ---------------- C12 ---------------- *)

\* A main-loop poll that reads a click-release edge while the selected
\* menu entry holds something that is not one of the program's functions.
NonCallableDispatch ==
    /\ MainReadStep
    /\ pin24 /\ prevClick
    /\ menu[selection + 1][2] \notin {"showProx", "showLux", "setThresh"}

\* C12 (on every context of Menus): when the selected entry's action is not
\* callable, doAction starts no action loop and does not stop the program;
\* ctx['newline'] is TRUE afterwards, ctx['threshold'] is unchanged,
\* ctx['selection'] is changed by nothing but the select() of the same
\* main-loop iteration, and control is back at the top of the main loop.
\* It happens only on a menu other than the one main() builds.
C12_NonCallableIsSkipped ==
    [][ NonCallableDispatch =>
            /\ pc' = "main"
            /\ newline'
            /\ threshold' = threshold
            /\ selection' = Max(0, Min(2, selection + encAccum))
            /\ (encAccum = 0) => (selection' = selection)
            /\ prevClick' = FALSE
            /\ ledWrites' = 1
            /\ menu # Menu
      ]_vars

\* Back at the loop top from doAction with the selection still on the
\* entry that is not callable.
C12_Witness ==
    /\ pc = "main"
    /\ rendersSince = 0
    /\ led # LED_UNSET
    /\ newline
    /\ delta = 0
    /\ menu[selection + 1][2] = NotCallable

(* ---------------- C13 ---------------- *)

\* C13: a main-loop poll that reads a click-release edge together with a
\* nonzero delta starts the action of the selection as rendered, leaving
\* the selection alone; the delta is kept while the action runs and is
\* applied, clamped, in the step in which the action returns.
C13_ActionBeforeTurn ==
    [][ /\ (MainReadStep /\ pin24 /\ prevClick /\ encAccum # 0) =>
               /\ pc' = Menu[selection + 1][2]
               /\ Highlighted(lastRender) = {selection}
               /\ selection' = selection
               /\ delta' = encAccum
        /\ (InAction /\ pc' = pc) =>
               (delta' = delta /\ selection' = selection)
        /\ ActionExitStep =>
               (selection' = Max(0, Min(2, selection + delta)))
      ]_vars

\* An action has just returned and the selection is no longer the item
\* that was highlighted when it was started.
C13_Witness ==
    /\ pc = "main"
    /\ rendersSince = 0
    /\ led # LED_UNSET
    /\ delta # 0
    /\ Highlighted(lastRender) # {selection}

(* ---------------- C14 ---------------- *)

\* C14: a step of showProx or showLux leaves the encoder's pending
\* rotation alone; no step of a running action changes ctx['selection'],
\* and the step in which it returns changes it only by the select() of
\* main() with the delta read before the action; the first main-loop read
\* after an action (or after startup) dispatches nothing, takes all the
\* pending rotation and applies it, clamped, to the selection.
C14_RotationKeptForMenu ==
    [][ /\ (ProgramStep /\ pc \in {"showProx", "showLux"}) =>
               (encAccum' = encAccum)
        /\ (InAction /\ pc' = pc) => (selection' = selection)
        /\ ActionExitStep =>
               (selection' = Max(0, Min(2, selection + delta)))
        /\ (MainReadStep /\ rendersSince = 1) =>
               /\ pc' = "main"
               /\ delta' = encAccum
               /\ encAccum' = 0
               /\ selection' = Max(0, Min(2, selection + encAccum))
      ]_vars

\* showProx has polled the button and two detents of rotation are pending.
C14_Witness ==
    /\ pc = "showProx"
    /\ aPrevClick
    /\ delta = 0
    /\ encAccum >= 2

(* ---------------- C15 ---------------- *)

\* C15: no step taken outside setThresh (showProx, showLux, select and the
\* rest of the main loop) changes ctx['threshold']; no step of setThresh
\* changes ctx['selection'], the step in which it returns changing it only
\* by the select() of main(); an action poll that only calls
\* updateNeopixel changes neither selection, threshold nor the newline
\* flag; ctx['menu'] is never changed.
C15_FrameConditions ==
    [][ /\ (pc # "setThresh") => (threshold' = threshold)
        /\ (pc = "setThresh" /\ pc' = "setThresh") =>
               (selection' = selection)
        /\ (pc = "setThresh" /\ pc' # "setThresh") =>
               /\ selection' = Max(0, Min(2, selection + delta))
               /\ threshold' = threshold
        /\ (ProgramStep /\ InAction /\ pc' = pc) =>
               /\ ledWrites' = 1
               /\ selection' = selection
               /\ newline' = newline
               /\ (pc # "setThresh" \/ encAccum = 0) =>
                      (threshold' = threshold)
        /\ menu' = menu
        /\ menu = << <<"Show Proxmity", "showProx">>,
                     <<"Show Lux", "showLux">>,
                     <<"Set Threshold", "setThresh">> >>
      ]_vars

\* setThresh has moved the threshold and written the LED; the selection
\* is still the entry it was started from.
C15_Witness ==
    /\ pc = "setThresh"
    /\ threshold > 4
    /\ selection = 2
    /\ ledWrites = 1
    /\ aPrevClick

(* ---------------- C16 ---------------- *)

\* C16: the setThresh poll that ends the loop reads the encoder delta
\* (the pending rotation is cleared) and drops it: ctx['threshold'] is
\* unchanged by that step whatever the delta, and the delta is not applied
\* to the selection either.
C16_ExitPollDiscardsDelta ==
    [][ (pc = "setThresh" /\ pc' # "setThresh") =>
            /\ threshold' = threshold
            /\ encAccum' = 0
            /\ discarded' = encAccum
            /\ selection' = Max(0, Min(2, selection + delta))
      ]_vars

\* setThresh has just returned on a poll that read a nonzero delta.
C16_Witness ==
    /\ pc = "main"
    /\ rendersSince = 0
    /\ discarded # 0
    /\ encAccum = 0

(* ---------------- C17 ---------------- *)

\* A step of the program that reads the button: the read of main() or one
\* iteration of an action loop.
ButtonPollStep == ProgramStep /\ pc \in ({"mainPoll"} \cup ActionPCs)

\* C17 as stated: at every button read that has a button read before it
\* (the first read of all is the only one made with the LED never
\* written), the LED was written exactly once since that earlier read.
C17_OnceBetweenAnyTwoPolls ==
    [][ (ButtonPollStep /\ led # LED_UNSET) => (ledWrites = 1) ]_vars

\* C17, amended: the LED is written exactly once between two consecutive
\* button reads, except between the main-loop read that dispatches an
\* action and the first read of that action's loop, where it is not
\* written.  A read that dispatches nothing, a non-exiting iteration of an
\* action loop and an exiting one (through the rest of the main-loop
\* iteration) are each followed by one write before the next read; the
\* menu render and the hardware write nothing.
C17_OnceExceptAfterDispatch ==
    [][ /\ (ButtonPollStep /\ ~DispatchStep) => (ledWrites' = 1)
        /\ DispatchStep =>
               (ButtonPollStep /\ ledWrites' = 0 /\ led' = led)
        /\ (~ButtonPollStep) => (ledWrites' = ledWrites /\ led' = led)
        /\ (ButtonPollStep /\ led # LED_UNSET /\ ledWrites # 1) =>
               (ledWrites = 0 /\ InAction)
        /\ (ButtonPollStep /\ pc = "mainPoll" /\ led # LED_UNSET) =>
               (ledWrites = 1)
      ]_vars

\* An action has been dispatched and its first button read comes next,
\* with no LED write since the read of main().
C17_Witness == InAction /\ ledWrites = 0 /\ led # LED_UNSET /\ ~aPrevClick

====
